---- MODULE Spec2Model ----
(***************************************************************************)
(* Model of the node edit panel of the JSON graph editor                   *)
(* (src/features/modals/NodeModal/index.tsx): the canonical text of a      *)
(* node (normalizeNodeData), the path-addressed update (setValueAtPath),   *)
(* path equality (pathEquals) and the save / cancel / reselect cycle of    *)
(* the NodeModal component.                                                *)
(*                                                                         *)
(* Representation.                                                         *)
(*   - A JavaScript string is a sequence of atoms.  An atom is one         *)
(*     character of JSON syntax ("{", "}", "[", "]", ",", ":", the quote,  *)
(*     the backslash) or one whole word ("a", "hi", "1", "true", ...).     *)
(*     White space is not represented, so JSON.stringify(x) and            *)
(*     JSON.stringify(x, null, 2) are the same sequence of atoms.          *)
(*   - A JavaScript value is a record [k, v, keys, e]: k is the kind,      *)
(*     v the content of a scalar (a string), keys the property names of an *)
(*     object in their order, e the property values of an object or the    *)
(*     elements of an array.                                               *)
(*   - A path segment is a record [tag, name, idx].                        *)
(***************************************************************************)
EXTENDS Integers, Sequences, FiniteSets, TLC

\* ------------------------------------------------------------------ atoms

LB == "{"
RB == "}"
LK == "["
RK == "]"
CM == ","
CL == ":"
QT == "\""
BS == "\\"

\* The words that lex as JSON number literals.
NumAtoms == {"0", "1", "2", "3", "9"}

\* ----------------------------------------------------------------- values

JNull == [k |-> "null", v |-> <<>>, keys |-> <<>>, e |-> <<>>]

\* JavaScript's undefined: what reading a missing property or an array slot
\* past the end yields, and what a hole of an array holds.
JUndef == [k |-> "undefined", v |-> <<>>, keys |-> <<>>, e |-> <<>>]

JBool(a) == [k |-> "boolean", v |-> <<a>>, keys |-> <<>>, e |-> <<>>]

JNum(a) == [k |-> "number", v |-> <<a>>, keys |-> <<>>, e |-> <<>>]

JStr(s) == [k |-> "string", v |-> s, keys |-> <<>>, e |-> <<>>]

JArr(items) == [k |-> "array", v |-> <<>>, keys |-> <<>>, e |-> items]

JObj(names, vals) == [k |-> "object", v |-> <<>>, keys |-> names, e |-> vals]

EmptyObj == JObj(<<>>, <<>>)

IsArray(x) == x.k = "array"

IsObject(x) == x.k = "object"

\* Position of property name in the object x, 0 when x has no such property.
KeyIndex(x, name) ==
  IF \E j \in 1..Len(x.keys) : x.keys[j] = name
  THEN CHOOSE j \in 1..Len(x.keys) : x.keys[j] = name
  ELSE 0

\* x[name] for an object x: undefined for a missing property.
GetProp(x, name) ==
  IF KeyIndex(x, name) = 0 THEN JUndef ELSE x.e[KeyIndex(x, name)]

\* delete x[name]; x[name] = val: the property moves to the end.
SetPropMovesLast(x, name, val) ==
  LET keep == SelectSeq([j \in 1..Len(x.keys) |-> j], LAMBDA j : x.keys[j] # name)
  IN JObj([j \in 1..Len(keep) |-> x.keys[keep[j]]] \o <<name>>,
          [j \in 1..Len(keep) |-> x.e[keep[j]]] \o <<val>>)

\* x[name] = val for an object x: an existing property keeps its place, a
\* new one is appended (the insertion order JavaScript keeps for names that
\* are not array indices).
SetProp(x, name, val) ==
  IF KeyIndex(x, name) = 0
  THEN JObj(Append(x.keys, name), Append(x.e, val))
  ELSE JObj(x.keys, [x.e EXCEPT ![KeyIndex(x, name)] = val])

\* x[i] for an array x (i counted from 0): undefined past the end.
GetIndex(x, i) == IF i < Len(x.e) THEN x.e[i + 1] ELSE JUndef

\* x[i] = val for an array x: past the end the array grows, and the slots
\* in between are holes.
SetIndex(x, i, val) ==
  IF i < Len(x.e)
  THEN JArr([x.e EXCEPT ![i + 1] = val])
  ELSE JArr([j \in 1..(i + 1) |->
               IF j <= Len(x.e) THEN x.e[j]
               ELSE IF j = i + 1 THEN val ELSE JUndef])

\* ------------------------------------------------------- JSON.stringify

RECURSIVE EscapeChars(_)
EscapeChars(s) ==
  IF s = <<>> THEN <<>>
  ELSE (IF Head(s) = QT THEN <<BS, QT>>
        ELSE IF Head(s) = BS THEN <<BS, BS>>
        ELSE <<Head(s)>>) \o EscapeChars(Tail(s))

QuoteString(s) == <<QT>> \o EscapeChars(s) \o <<QT>>

RECURSIVE Stringify(_)
RECURSIVE StringifyItems(_, _)
RECURSIVE StringifyMembers(_, _, _)
\* JSON.stringify(x) for a value that is not undefined.
Stringify(x) ==
  CASE x.k = "string" -> QuoteString(x.v)
    [] x.k = "number" -> x.v
    [] x.k = "boolean" -> x.v
    [] x.k = "null" -> <<"null">>
    [] x.k = "array" -> <<LK>> \o StringifyItems(x.e, 1) \o <<RK>>
    [] x.k = "object" -> <<LB>> \o StringifyMembers(x, 1, TRUE) \o <<RB>>
    [] OTHER -> <<"undefined">>

\* The elements of an array from position j on; a hole is written null.
StringifyItems(items, j) ==
  IF j > Len(items) THEN <<>>
  ELSE (IF j > 1 THEN <<CM>> ELSE <<>>)
       \o (IF items[j].k = "undefined" THEN <<"null">> ELSE Stringify(items[j]))
       \o StringifyItems(items, j + 1)

\* The properties of an object from position j on; a property whose value
\* is undefined is left out.
StringifyMembers(x, j, first) ==
  IF j > Len(x.keys) THEN <<>>
  ELSE IF x.e[j].k = "undefined" THEN StringifyMembers(x, j + 1, first)
  ELSE (IF first THEN <<>> ELSE <<CM>>)
       \o QuoteString(x.keys[j]) \o <<CL>> \o Stringify(x.e[j])
       \o StringifyMembers(x, j + 1, FALSE)

\* ------------------------------------------------------------ JSON.parse

ParseFail == [ok |-> FALSE, val |-> JUndef, pos |-> 0]

ParseOk(x, p) == [ok |-> TRUE, val |-> x, pos |-> p]

\* The characters of a string literal from position i (after the opening
\* quote) to its closing quote.
RECURSIVE ParseChars(_, _, _)
ParseChars(t, i, acc) ==
  IF i > Len(t) THEN ParseFail
  ELSE IF t[i] = QT THEN ParseOk(JStr(acc), i + 1)
  ELSE IF t[i] = BS
       THEN IF i + 1 <= Len(t) /\ t[i + 1] \in {QT, BS}
            THEN ParseChars(t, i + 2, Append(acc, t[i + 1]))
            ELSE ParseFail
  ELSE ParseChars(t, i + 1, Append(acc, t[i]))

RECURSIVE ParseValue(_, _)
RECURSIVE ParseElements(_, _, _)
RECURSIVE ParseMembers(_, _, _)
\* One JSON value starting at position i of the text t.
ParseValue(t, i) ==
  IF i > Len(t) THEN ParseFail
  ELSE CASE t[i] = LB ->
              IF i + 1 <= Len(t) /\ t[i + 1] = RB
              THEN ParseOk(EmptyObj, i + 2)
              ELSE ParseMembers(t, i + 1, EmptyObj)
         [] t[i] = LK ->
              IF i + 1 <= Len(t) /\ t[i + 1] = RK
              THEN ParseOk(JArr(<<>>), i + 2)
              ELSE ParseElements(t, i + 1, <<>>)
         [] t[i] = QT -> ParseChars(t, i + 1, <<>>)
         [] t[i] \in NumAtoms -> ParseOk(JNum(t[i]), i + 1)
         [] t[i] \in {"true", "false"} -> ParseOk(JBool(t[i]), i + 1)
         [] t[i] = "null" -> ParseOk(JNull, i + 1)
         [] OTHER -> ParseFail

\* The elements of an array: a value at i, then "," and more, or "]".
ParseElements(t, i, acc) ==
  LET r == ParseValue(t, i) IN
  IF ~r.ok \/ r.pos > Len(t) THEN ParseFail
  ELSE IF t[r.pos] = CM THEN ParseElements(t, r.pos + 1, Append(acc, r.val))
  ELSE IF t[r.pos] = RK THEN ParseOk(JArr(Append(acc, r.val)), r.pos + 1)
  ELSE ParseFail

\* The members of an object: a string, ":", a value at i, then "," and
\* more, or "}".  A repeated name keeps its first place and its last value.
ParseMembers(t, i, acc) ==
  IF i > Len(t) \/ t[i] # QT THEN ParseFail
  ELSE LET key == ParseChars(t, i + 1, <<>>) IN
       IF ~key.ok \/ key.pos > Len(t) \/ t[key.pos] # CL THEN ParseFail
       ELSE LET r == ParseValue(t, key.pos + 1) IN
            IF ~r.ok \/ r.pos > Len(t) THEN ParseFail
            ELSE IF t[r.pos] = CM
                 THEN ParseMembers(t, r.pos + 1, SetProp(acc, key.val.v, r.val))
            ELSE IF t[r.pos] = RB
                 THEN ParseOk(SetProp(acc, key.val.v, r.val), r.pos + 1)
            ELSE ParseFail

\* JSON.parse(t): ok is FALSE where JSON.parse throws a SyntaxError.
JsonParse(t) ==
  LET r == ParseValue(t, 1) IN
  IF r.ok /\ r.pos = Len(t) + 1 THEN r ELSE ParseFail

\* ------------------------------------------------------------------ paths

\* NodeData["path"] is an array of string | number.  Property names in the
\* model are words that are not canonical array indices ("a", "b", ...), so
\* that objects keep insertion order and a name never addresses an element
\* of an array.
NameSeg(s) == [tag |-> "name", name |-> s, idx |-> 0]

IndexSeg(i) == [tag |-> "index", name |-> <<>>, idx |-> i]

\* An optional path (path?: ...): <<>> is undefined, <<p>> is the path p.
NoPath == <<>>

SomePath(p) == <<p>>

\* --------------------------------------------------------- setValueAtPath

\* The test cursor[seg] == undefined, which also holds of null.
IsMissingLoose(x) == x = JUndef \/ x = JNull

\* The test cursor[seg] === undefined of the loop.
IsMissing(x) == x = JUndef

\* The loop of setValueAtPath from segment i on, with the cursor at the
\* value cursor.  st is "ok" when the final assignment was made, "null"
\* where the code returns null, "throw" where the statement raises a
\* TypeError (the file is an ES module, so strict mode: reading a property
\* of null or undefined throws, and so does creating a property on a
\* number, string or boolean).  cur is the cursor value after the writes
\* made at or below it, which the code makes in place.
RECURSIVE Walk(_, _, _, _)
Walk(cursor, path, i, value) ==
  LET seg == path[i] IN
  IF i = Len(path)
  THEN IF seg.tag = "index"
       THEN IF ~IsArray(cursor)
            THEN [st |-> "null", cur |-> cursor]
            ELSE [st |-> "ok", cur |-> SetIndex(cursor, seg.idx, value)]
       ELSE CASE IsObject(cursor) ->
                   [st |-> "ok", cur |-> SetProp(cursor, seg.name, value)]
              [] IsArray(cursor) ->
                   \* a property of the array object that is not an element
                   [st |-> "ok", cur |-> cursor]
              [] OTHER -> [st |-> "throw", cur |-> cursor]
  ELSE IF seg.tag = "index"
       THEN IF ~IsArray(cursor)
            THEN [st |-> "null", cur |-> cursor]
            ELSE LET child == GetIndex(cursor, seg.idx)
                     r == Walk(child, path, i + 1, value)
                 IN [st |-> r.st,
                     cur |-> IF child = JUndef THEN cursor
                             ELSE SetIndex(cursor, seg.idx, r.cur)]
       ELSE CASE IsObject(cursor) ->
                   LET child == IF IsMissing(GetProp(cursor, seg.name))
                                THEN EmptyObj
                                ELSE GetProp(cursor, seg.name)
                       r == Walk(child, path, i + 1, value)
                   IN [st |-> r.st, cur |-> SetProp(cursor, seg.name, r.cur)]
              [] IsArray(cursor) ->
                   \* cursor[seg] is undefined: a fresh {} becomes a property
                   \* of the array object that is not an element
                   LET r == Walk(EmptyObj, path, i + 1, value)
                   IN [st |-> r.st, cur |-> cursor]
              [] OTHER -> [st |-> "throw", cur |-> cursor]

\* setValueAtPath with `return root` for the empty path.
setValueAtPathKeepsRoot(root, path, value) ==
  IF path = NoPath \/ Len(path[1]) = 0
  THEN [st |-> "return", val |-> root, working |-> root]
  ELSE LET r == Walk(root, path[1], 1, value) IN
       CASE r.st = "ok" -> [st |-> "return", val |-> r.cur, working |-> r.cur]
         [] r.st = "null" -> [st |-> "return", val |-> JNull, working |-> r.cur]
         [] OTHER -> [st |-> "throw", val |-> JUndef, working |-> r.cur]

\* setValueAtPath(root, path, value).  st is "return" or "throw"; val is
\* the value returned (JNull for `return null`); working is root after the
\* call, which the code mutates in place.
setValueAtPath(root, path, value) ==
  IF path = NoPath \/ Len(path[1]) = 0
  THEN [st |-> "return", val |-> value, working |-> root]
  ELSE LET r == Walk(root, path[1], 1, value) IN
       CASE r.st = "ok" -> [st |-> "return", val |-> r.cur, working |-> r.cur]
         [] r.st = "null" -> [st |-> "return", val |-> JNull, working |-> r.cur]
         [] OTHER -> [st |-> "throw", val |-> JUndef, working |-> r.cur]

\* ------------------------------------------------------------- pathEquals

\* a[i] != b[i]: a string and a number are equal when the string reads as
\* the number.
SegLooseEq(s, t) ==
  IF s.tag = t.tag
  THEN IF s.tag = "name" THEN s.name = t.name ELSE s.idx = t.idx
  ELSE LET str == IF s.tag = "name" THEN s.name ELSE t.name
           num == IF s.tag = "name" THEN t.idx ELSE s.idx
       IN \/ (str = <<"0">> /\ num = 0)
          \/ (str = <<"1">> /\ num = 1)

\* a[i] !== b[i] on string | number: equal when of the same type and value.
SegStrictEq(s, t) ==
  /\ s.tag = t.tag
  /\ IF s.tag = "name" THEN s.name = t.name ELSE s.idx = t.idx

RECURSIVE PathLoop(_, _, _)
PathLoop(a, b, i) ==
  IF i > Len(a) THEN TRUE
  ELSE IF ~SegStrictEq(a[i], b[i]) THEN FALSE
  ELSE PathLoop(a, b, i + 1)

pathEquals(a, b) ==
  IF a = NoPath /\ b = NoPath THEN TRUE
  ELSE IF a = NoPath \/ b = NoPath THEN FALSE
  ELSE IF Len(a[1]) # Len(b[1]) THEN FALSE
  ELSE PathLoop(a[1], b[1], 1)

\* ------------------------------------------------------ normalizeNodeData

\* A row of NodeData["text"]: an optional key, a value and a type.
Row(hasKey, key, value, type) ==
  [hasKey |-> hasKey, key |-> key, value |-> value, type |-> type]

\* !row.key: the key is null, undefined or the empty string.
KeyFalsy(row) == ~row.hasKey \/ row.key = <<>>

\* `${v}`: String(v).
RECURSIVE TemplateString(_)
RECURSIVE TemplateJoin(_, _)
TemplateString(x) ==
  CASE x.k \in {"string", "number", "boolean"} -> x.v
    [] x.k = "null" -> <<"null">>
    [] x.k = "undefined" -> <<"undefined">>
    [] x.k = "array" -> TemplateJoin(x.e, 1)
    [] OTHER -> <<"[object Object]">>

TemplateJoin(items, j) ==
  IF j > Len(items) THEN <<>>
  ELSE (IF j > 1 THEN <<CM>> ELSE <<>>)
       \o (IF items[j].k \in {"null", "undefined"} THEN <<>>
           ELSE TemplateString(items[j]))
       \o TemplateJoin(items, j + 1)

\* The forEach of normalizeNodeData over the rows from position j on.
RECURSIVE CollectRows(_, _, _)
CollectRows(rows, j, obj) ==
  IF j > Len(rows) THEN obj
  ELSE CollectRows(rows, j + 1,
         IF rows[j].type # "array" /\ rows[j].type # "object" /\ ~KeyFalsy(rows[j])
         THEN SetProp(obj, rows[j].key, rows[j].value)
         ELSE obj)

normalizeNodeData(nodeRows) ==
  IF Len(nodeRows) = 0 THEN <<LB, RB>>
  ELSE IF Len(nodeRows) = 1 /\ KeyFalsy(nodeRows[1])
       THEN IF nodeRows[1].value.k = "string"
            THEN Stringify(nodeRows[1].value)
            ELSE TemplateString(nodeRows[1].value)
  ELSE Stringify(CollectRows(nodeRows, 1, EmptyObj))

\* ---------------------------------------------------------- graph rebuild

\* The type tag of a row.
RowType(x) ==
  IF IsArray(x) THEN "array" ELSE IF IsObject(x) THEN "object" ELSE "primitive"

\* The nodes of the graph of a document, as <<path, rows>> pairs in
\* traversal order: an object is a node with one row per property; a scalar
\* that is the root or an array element is a node with one row without a
\* key; the rows of type array and object are drawn by their own nodes
\* below.
RECURSIVE Traverse(_, _)
RECURSIVE TraverseAll(_, _, _)
Traverse(x, path) ==
  CASE IsObject(x) ->
         << [path |-> path,
             text |-> [j \in 1..Len(x.keys) |->
                         Row(TRUE, x.keys[j], x.e[j], RowType(x.e[j]))]] >>
         \o TraverseAll(x, path, 1)
    [] IsArray(x) -> TraverseAll(x, path, 1)
    [] OTHER -> << [path |-> path, text |-> <<Row(FALSE, <<>>, x, "primitive")>>] >>

\* The nodes below the container x, from its child j on.
TraverseAll(x, path, j) ==
  IF j > Len(x.e) THEN <<>>
  ELSE (IF IsObject(x)
        THEN IF IsObject(x.e[j]) \/ IsArray(x.e[j])
             THEN Traverse(x.e[j], Append(path, NameSeg(x.keys[j])))
             ELSE <<>>
        ELSE Traverse(x.e[j], Append(path, IndexSeg(j - 1))))
       \o TraverseAll(x, path, j + 1)

\* The node set the graph store holds after a rebuild from the document
\* text: ids number the nodes in traversal order, gen tells the objects of
\* one rebuild from those of another.  Text that does not parse gives no
\* nodes.
BuildNodes(text, g) ==
  LET r == JsonParse(text)
      ns == IF r.ok THEN Traverse(r.val, <<>>) ELSE <<>>
  IN [j \in 1..Len(ns) |->
        [id |-> j, path |-> ns[j].path, text |-> ns[j].text, gen |-> g]]

\* ------------------------------------------------------------------ bounds

\* The most documents committed in one run.
MaxCommits == 1

\* The longest path given to setValueAtPath directly.
MaxPathLen == 3

\* The most rows of a row list given to normalizeNodeData directly.
MaxRows == 2

\* ------------------------------------------------------------------ inputs

Q(w) == <<QT, w, QT>>

\* {"a":{"b":1}}
TextNested == <<LB>> \o Q("a") \o <<CL, LB>> \o Q("b") \o <<CL, "1", RB, RB>>

\* {"a":[1,2]}
TextArray == <<LB>> \o Q("a") \o <<CL, LK, "1", CM, "2", RK, RB>>

\* {"a":   (cut short: not JSON)
TextBroken == <<LB>> \o Q("a") \o <<CL>>

\* The document texts the store may hold when the panel is mounted.
InitialTexts == {TextNested, TextArray, TextBroken}

\* What the user may type into the text area: null, {"c":[null]}, and the
\* bare word hi, which is not JSON.
TypedTexts == { <<"null">>, <<LB>> \o Q("c") \o <<CL, LK, "null", RK, RB>>, <<"hi">> }

\* The arguments of the direct calls of setValueAtPath.
\* {"a":{"b":1}}, {"a":[1,2,3]}, {}, {"a":1}, {"a":null,"b":{"a":[1]}},
\* [1,{}] and 1.
MutDocs ==
  { JsonParse(TextNested).val,
    JObj(<< <<"a">> >>, << JArr(<<JNum("1"), JNum("2"), JNum("3")>>) >>),
    EmptyObj,
    JObj(<< <<"a">> >>, << JNum("1") >>),
    JObj(<< <<"a">>, <<"b">> >>,
         << JNull, JObj(<< <<"a">> >>, << JArr(<<JNum("1")>>) >>) >>),
    JArr(<<JNum("1"), EmptyObj>>),
    JNum("1") }

MutSegs == {NameSeg(<<"a">>), NameSeg(<<"b">>), IndexSeg(0), IndexSeg(1), IndexSeg(5)}

MutPaths ==
  {NoPath} \cup
  {SomePath(p) : p \in UNION {[1..n -> MutSegs] : n \in 0..MaxPathLen}}

\* 2, 3, 9, null
MutValues == {JNum("2"), JNum("3"), JNum("9"), JNull}

\* ------------------------------------------------------------------- state

\* error: string | null
NoError == "null"

ErrInvalidDocument == "Current JSON is invalid; cannot apply change."

ErrTypeMismatch == "Failed to set value at path (type mismatch)."

VARIABLES
  json,          \* useJson: the document text of the store
  commits,       \* the number of calls of setJson made by the panel
  nodes,         \* useGraph: the node set, as last rebuilt
  gen,           \* the number of rebuilds of the node set
  stale,         \* setJson was called and the node set is not yet rebuilt
  selectedNode,  \* useGraph: <<>> for no selection, <<n>> for the node n
  opened,        \* the prop opened of the modal
  editing,       \* useState: the panel is in edit mode
  editorValue,   \* useState: the text of the text area
  error,         \* useState: the error shown, NoError for null
  timers,        \* the paths captured by the pending setTimeout callbacks
  uncaught,      \* a TypeError has left an event handler uncaught
  call           \* a direct call of setValueAtPath and its result

vars == <<json, commits, nodes, gen, stale, selectedNode, opened, editing,
          editorValue, error, timers, uncaught, call>>

panel == <<json, commits, nodes, gen, stale, selectedNode, opened, editing,
           editorValue, error, timers, uncaught>>

\* nodeData?.id: 0 stands for undefined.
IdOf(sel) == IF sel = <<>> THEN 0 ELSE sel[1].id

\* nodeData?.path
PathOf(sel) == IF sel = <<>> THEN NoPath ELSE SomePath(sel[1].path)

\* nodeData?.text ?? []
RowsOf(sel) == IF sel = <<>> THEN <<>> ELSE sel[1].text

\* useMemo(() => normalizeNodeData(nodeData?.text ?? []), [nodeData?.text])
initialContent == normalizeNodeData(RowsOf(selectedNode))

\* The useEffect on [nodeData?.id, opened], run after a render in which the
\* selection became sel and the prop became op: local state is reset when a
\* dependency changed, and kept otherwise.
ResetEffect(sel, op) ==
  IF IdOf(sel) # IdOf(selectedNode) \/ op # opened
  THEN /\ editing' = FALSE
       /\ error' = NoError
       /\ editorValue' = normalizeNodeData(RowsOf(sel))
  ELSE UNCHANGED <<editing, error, editorValue>>

NoCall ==
  [doc |-> JUndef, path |-> NoPath, value |-> JUndef, pc |-> "none",
   res |-> [st |-> "none", val |-> JUndef, working |-> JUndef],
   current |-> JUndef, rows |-> <<>>, out |-> <<>>,
   a |-> NoPath, b |-> NoPath, eq |-> FALSE]

Init ==
  /\ json \in InitialTexts
  /\ commits = 0
  /\ nodes = BuildNodes(json, 0)
  /\ gen = 0
  /\ stale = FALSE
  /\ selectedNode = <<>>
  /\ opened = FALSE
  /\ editing = FALSE
  /\ editorValue = normalizeNodeData(<<>>)
  /\ error = NoError
  /\ timers = <<>>
  /\ uncaught = FALSE
  /\ call = NoCall

\* ----------------------------------------------------------------- actions

\* The parent opens the modal.
OpenModal ==
  /\ ~opened
  /\ opened' = TRUE
  /\ ResetEffect(selectedNode, TRUE)
  /\ UNCHANGED <<json, commits, nodes, gen, stale, selectedNode, timers, uncaught, call>>

\* The parent closes the modal (onClose).
CloseModal ==
  /\ opened
  /\ opened' = FALSE
  /\ ResetEffect(selectedNode, FALSE)
  /\ UNCHANGED <<json, commits, nodes, gen, stale, selectedNode, timers, uncaught, call>>

\* The user selects a node of the graph: setSelectedNode(nodes[j]).
SelectNode(j) ==
  /\ selectedNode' = <<nodes[j]>>
  /\ ResetEffect(<<nodes[j]>>, opened)
  /\ UNCHANGED <<json, commits, nodes, gen, stale, opened, timers, uncaught, call>>

\* The Edit button: setEditing(true).
StartEdit ==
  /\ opened /\ ~editing
  /\ editing' = TRUE
  /\ UNCHANGED <<json, commits, nodes, gen, stale, selectedNode, opened,
                 editorValue, error, timers, uncaught, call>>

\* The text area's onChange: setEditorValue(t).
ChangeText(t) ==
  /\ opened /\ editing
  /\ editorValue' = t
  /\ UNCHANGED <<json, commits, nodes, gen, stale, selectedNode, opened,
                 editing, error, timers, uncaught, call>>

\* The fallback as JSON.stringify(editorValue): the quoted text.
NewValueOfQuoted(text) ==
  IF JsonParse(text).ok THEN JsonParse(text).val ELSE JStr(QuoteString(text))

\* The value handleSave takes from the editor: the parsed text, or the raw
\* text as a string when it does not parse.
NewValueOf(text) ==
  IF JsonParse(text).ok THEN JsonParse(text).val ELSE JStr(text)

\* JSON.parse(JSON.stringify(x))
DeepClone(x) == JsonParse(Stringify(x)).val

\* handleSave without its test `updated === null`.
SaveOutcomeNoNullCheck(text, sel, edited) ==
  LET cur == JsonParse(text) IN
  IF ~cur.ok
  THEN [kind |-> "invalid", text |-> text, working |-> JUndef]
  ELSE LET r == setValueAtPath(DeepClone(cur.val), PathOf(sel), NewValueOf(edited)) IN
       CASE r.st = "throw" ->
              [kind |-> "throw", text |-> text, working |-> r.working]
         [] OTHER ->
              [kind |-> "commit", text |-> Stringify(r.val), working |-> r.working]

\* What handleSave computes from the document text, the selection and the
\* editor text: kind is "invalid" (the document does not parse), "throw"
\* (setValueAtPath raised), "mismatch" (it returned null) or "commit", with
\* the text given to setJson; working is the clone after the call.
SaveOutcome(text, sel, edited) ==
  LET cur == JsonParse(text) IN
  IF ~cur.ok
  THEN [kind |-> "invalid", text |-> text, working |-> JUndef]
  ELSE LET r == setValueAtPath(DeepClone(cur.val), PathOf(sel), NewValueOf(edited)) IN
       CASE r.st = "throw" ->
              [kind |-> "throw", text |-> text, working |-> r.working]
         [] r.val = JNull ->
              [kind |-> "mismatch", text |-> text, working |-> r.working]
         [] OTHER ->
              [kind |-> "commit", text |-> Stringify(r.val), working |-> r.working]

\* The Save button.
handleSave ==
  /\ opened /\ editing
  /\ LET out == SaveOutcome(json, selectedNode, editorValue) IN
     CASE out.kind = "invalid" ->
            /\ error' = ErrInvalidDocument
            /\ UNCHANGED <<json, commits, stale, timers, editing, uncaught>>
       [] out.kind = "throw" ->
            \* the TypeError leaves handleSave after setError(null)
            /\ error' = NoError
            /\ uncaught' = TRUE
            /\ UNCHANGED <<json, commits, stale, timers, editing>>
       [] out.kind = "mismatch" ->
            /\ error' = ErrTypeMismatch
            /\ UNCHANGED <<json, commits, stale, timers, editing, uncaught>>
       [] OTHER ->
            /\ commits < MaxCommits
            /\ json' = out.text
            /\ commits' = commits + 1
            /\ stale' = TRUE
            /\ timers' = Append(timers, PathOf(selectedNode))
            /\ editing' = FALSE
            /\ error' = NoError
            /\ UNCHANGED uncaught
  /\ UNCHANGED <<nodes, gen, selectedNode, opened, editorValue, call>>

\* handleCancel without setEditorValue(initialContent).
handleCancelKeepsText ==
  /\ opened /\ editing
  /\ editing' = FALSE
  /\ error' = NoError
  /\ UNCHANGED <<json, commits, nodes, gen, stale, selectedNode, opened,
                 editorValue, timers, uncaught, call>>

\* The Cancel button.
handleCancel ==
  /\ opened /\ editing
  /\ editing' = FALSE
  /\ error' = NoError
  /\ editorValue' = initialContent
  /\ UNCHANGED <<json, commits, nodes, gen, stale, selectedNode, opened,
                 timers, uncaught, call>>

\* The graph store rebuilds the node set from the committed text.
Rebuild ==
  /\ stale
  /\ nodes' = BuildNodes(json, gen + 1)
  /\ gen' = gen + 1
  /\ stale' = FALSE
  /\ UNCHANGED <<json, commits, selectedNode, opened, editing, editorValue,
                 error, timers, uncaught, call>>

\* nodes.find((n) => pathEquals(n.path, path)): <<>> when there is none.
FindByPath(ns, path) ==
  IF \E j \in 1..Len(ns) : pathEquals(SomePath(ns[j].path), path)
  THEN LET first == CHOOSE j \in 1..Len(ns) :
                      /\ pathEquals(SomePath(ns[j].path), path)
                      /\ \A h \in 1..(j - 1) : ~pathEquals(SomePath(ns[h].path), path)
       IN <<ns[first]>>
  ELSE <<>>

\* The callback of the oldest pending setTimeout of handleSave.
Reselect ==
  /\ timers # <<>>
  /\ selectedNode' = FindByPath(nodes, Head(timers))
  /\ timers' = Tail(timers)
  /\ ResetEffect(FindByPath(nodes, Head(timers)), opened)
  /\ UNCHANGED <<json, commits, nodes, gen, stale, opened, uncaught, call>>

\* A direct call of setValueAtPath(call.doc, call.path, call.value).
ApplySet ==
  /\ call.pc = "ready"
  /\ call' = [call EXCEPT !.pc = "done",
                          !.res = setValueAtPath(call.doc, call.path, call.value)]
  /\ UNCHANGED panel

\* `let working = currentObj`: working names the object it is given.
CloneIntoAlias(heap, ref) == [heap |-> heap, ref |-> ref]

\* let working = JSON.parse(JSON.stringify(currentObj)), on a heap of
\* objects: the clone of the object ref is a new object of the heap.
CloneInto(heap, ref) ==
  [heap |-> Append(heap, DeepClone(heap[ref])), ref |-> Len(heap) + 1]

\* Lines 141-143 of handleSave on the parsed document call.doc: currentObj
\* is object 1 of the heap, setValueAtPath is given the object working
\* names and writes into it in place; current is currentObj after the call.
SaveCall ==
  /\ call.pc = "ready"
  /\ LET cl == CloneInto(<<call.doc>>, 1)
         r == setValueAtPath(cl.heap[cl.ref], call.path, call.value)
         after == [cl.heap EXCEPT ![cl.ref] = r.working]
     IN call' = [call EXCEPT !.pc = "saved", !.res = r, !.current = after[1]]
  /\ UNCHANGED panel

Next ==
  \/ OpenModal
  \/ CloseModal
  \/ \E j \in 1..Len(nodes) : SelectNode(j)
  \/ StartEdit
  \/ \E t \in TypedTexts : ChangeText(t)
  \/ handleSave
  \/ handleCancel
  \/ Rebuild
  \/ Reselect

Spec == Init /\ [][Next]_vars

\* The documents of the no-op edits: {"a":{"b":1}}, {"a":[1,2]},
\* {"x":"hi","y":[1,2]}, {"b":2,"a":{"":1}}, [null,{"b":"hi"}], "hi" and
\* null.
NoOpDocs ==
  { JsonParse(TextNested).val,
    JsonParse(TextArray).val,
    JObj(<< <<"x">>, <<"y">> >>, << JStr(<<"hi">>), JArr(<<JNum("1"), JNum("2")>>) >>),
    JObj(<< <<"b">>, <<"a">> >>, << JNum("2"), JObj(<< <<>> >>, << JNum("1") >>) >>),
    JArr(<< JNull, JObj(<< <<"b">> >>, << JStr(<<"hi">>) >>) >>),
    JStr(<<"hi">>),
    JNull }

\* The nodes of the graph of the document doc.
NodesOf(doc) == BuildNodes(Stringify(doc), 0)

\* The arguments of setValueAtPath in a save of the text the editor is
\* seeded with for the node n.
NoOpArgs ==
  UNION { { [doc |-> d, path |-> SomePath(NodesOf(d)[j].path),
             value |-> NewValueOf(normalizeNodeData(NodesOf(d)[j].text))] :
               j \in 1..Len(NodesOf(d)) } : d \in NoOpDocs }

\* The direct calls of setValueAtPath, over MutDocs, MutPaths and MutValues,
\* and those of the no-op edits.
InitMutate ==
  /\ json = TextNested
  /\ commits = 0
  /\ nodes = BuildNodes(json, 0)
  /\ gen = 0
  /\ stale = FALSE
  /\ selectedNode = <<>>
  /\ opened = FALSE
  /\ editing = FALSE
  /\ editorValue = normalizeNodeData(<<>>)
  /\ error = NoError
  /\ timers = <<>>
  /\ uncaught = FALSE
  /\ call \in {[NoCall EXCEPT !.doc = d, !.path = q, !.value = x, !.pc = "ready"] :
                 d \in MutDocs, q \in MutPaths, x \in MutValues}
              \cup
              {[NoCall EXCEPT !.doc = c.doc, !.path = c.path, !.value = c.value,
                              !.pc = "ready"] : c \in NoOpArgs}

NextMutate ==
  \/ ApplySet
  \/ SaveCall

SpecMutate == InitMutate /\ [][NextMutate]_vars

\* The rows given to normalizeNodeData directly: without a key, with the
\* key x, y or the empty string; of a string, a number, null, an array or
\* an object.
NormRows ==
  { Row(FALSE, <<>>, x, "primitive") : x \in {JStr(<<"hi">>), JNum("1"), JNull} }
  \cup
  { Row(TRUE, key, x, RowType(x)) :
      key \in { <<"x">>, <<"y">>, <<>> },
      x \in { JStr(<<"hi">>), JNum("1"), JNull,
              JArr(<<JNum("1"), JNum("2")>>), EmptyObj } }

NormRowLists == UNION { [1..n -> NormRows] : n \in 0..MaxRows }

\* A direct call of normalizeNodeData(call.rows).
Normalize ==
  /\ call.pc = "rows"
  /\ call' = [call EXCEPT !.pc = "normalized", !.out = normalizeNodeData(call.rows)]
  /\ UNCHANGED panel

\* The direct calls of normalizeNodeData, over NormRowLists.
InitNormalize ==
  /\ json = TextNested
  /\ commits = 0
  /\ nodes = BuildNodes(json, 0)
  /\ gen = 0
  /\ stale = FALSE
  /\ selectedNode = <<>>
  /\ opened = FALSE
  /\ editing = FALSE
  /\ editorValue = normalizeNodeData(<<>>)
  /\ error = NoError
  /\ timers = <<>>
  /\ uncaught = FALSE
  /\ call \in {[NoCall EXCEPT !.rows = r, !.pc = "rows"] : r \in NormRowLists}

NextNormalize == Normalize

SpecNormalize == InitNormalize /\ [][NextNormalize]_vars

\* The paths given to pathEquals directly: undefined, and the paths of up to
\* MaxPathLen segments over the name a, the name 0 and the index 0.
EqSegs == {NameSeg(<<"a">>), NameSeg(<<"0">>), IndexSeg(0)}

EqPaths ==
  {NoPath} \cup {SomePath(p) : p \in UNION {[1..n -> EqSegs] : n \in 0..MaxPathLen}}

\* A direct call of pathEquals(call.a, call.b).
ComparePaths ==
  /\ call.pc = "paths"
  /\ call' = [call EXCEPT !.pc = "compared", !.eq = pathEquals(call.a, call.b)]
  /\ UNCHANGED panel

\* The direct calls of pathEquals, over the pairs of EqPaths.
InitPathEquals ==
  /\ json = TextNested
  /\ commits = 0
  /\ nodes = BuildNodes(json, 0)
  /\ gen = 0
  /\ stale = FALSE
  /\ selectedNode = <<>>
  /\ opened = FALSE
  /\ editing = FALSE
  /\ editorValue = normalizeNodeData(<<>>)
  /\ error = NoError
  /\ timers = <<>>
  /\ uncaught = FALSE
  /\ call \in {[NoCall EXCEPT !.a = p, !.b = q, !.pc = "paths"] :
                 p \in EqPaths, q \in EqPaths}

NextPathEquals == ComparePaths

SpecPathEquals == InitPathEquals /\ [][NextPathEquals]_vars

\* ------------------------------------------------- locations of a value

\* q is a prefix of p.
IsPrefix(q, p) == Len(q) <= Len(p) /\ SubSeq(p, 1, Len(q)) = q

\* q is p or lies below p.
AtOrBelow(q, p) == IsPrefix(p, q)

\* The value at the location q of x: JUndef when x has no such location.
RECURSIVE LookupFrom(_, _, _)
LookupFrom(x, q, i) ==
  IF i > Len(q) THEN x
  ELSE IF q[i].tag = "name"
       THEN IF IsObject(x) /\ KeyIndex(x, q[i].name) # 0
            THEN LookupFrom(x.e[KeyIndex(x, q[i].name)], q, i + 1)
            ELSE JUndef
       ELSE IF IsArray(x) /\ q[i].idx < Len(x.e)
            THEN LookupFrom(x.e[q[i].idx + 1], q, i + 1)
            ELSE JUndef

Lookup(x, q) == LookupFrom(x, q, 1)

\* The locations of x: the root, and the locations of its properties and
\* elements.
RECURSIVE Locations(_)
Locations(x) ==
  {<<>>} \cup
  UNION { { <<IF IsObject(x) THEN NameSeg(x.keys[j]) ELSE IndexSeg(j - 1)>> \o q :
              q \in Locations(x.e[j]) } : j \in 1..Len(x.e) }

\* The cursor of the walk of section 4.2 before segment n of the path p,
\* starting at x before segment i: a name segment descends into a property
\* of an object (a fresh {} when it is missing), an index segment into an
\* existing element of an array; the walk does not get further otherwise.
RECURSIVE CursorBefore(_, _, _, _)
CursorBefore(x, p, i, n) ==
  IF i = n THEN [reached |-> TRUE, val |-> x]
  ELSE IF p[i].tag = "name"
       THEN IF IsObject(x)
            THEN CursorBefore(IF KeyIndex(x, p[i].name) = 0 THEN EmptyObj
                              ELSE GetProp(x, p[i].name), p, i + 1, n)
            ELSE [reached |-> FALSE, val |-> JUndef]
       ELSE IF IsArray(x) /\ p[i].idx < Len(x.e)
            THEN CursorBefore(GetIndex(x, p[i].idx), p, i + 1, n)
            ELSE [reached |-> FALSE, val |-> JUndef]

\* The direct call has returned, and its path is the non-empty path given.
CallDone == call.pc = "done"

CallPath == IF call.path = NoPath THEN <<>> ELSE call.path[1]

\* The call reported TypeMismatch: the code's `return null`.
CallMismatch == call.res.st = "return" /\ call.res.val = JNull

\* The call returned a document.
CallSucceeded == call.res.st = "return" /\ call.res.val # JNull

\* ------------------------------------------------------------------ claims

\* What handleSave is given fails: the document text does not parse, or
\* setValueAtPath on the parsed document raises or returns null.
SaveFails ==
  \/ ~JsonParse(json).ok
  \/ LET r == setValueAtPath(JsonParse(json).val, PathOf(selectedNode),
                             NewValueOf(editorValue))
     IN r.st = "throw" \/ r.val = JNull

\* C1: failure atomicity of save.  Every step of handleSave whose save fails
\* (the document text does not parse, or setValueAtPath fails) makes no call
\* of setJson and leaves the document text as it was, also when the working
\* copy had objects created in it before the failure.
C1_FailedSaveLeavesDocument ==
  [][(handleSave /\ SaveFails) => (json' = json /\ commits' = commits)]_vars

\* C1, the case reached: a save has reported the type mismatch after the
\* walk had created an object in the working copy, and the document text is
\* still one whose clone differs from that working copy.
C1_Witness ==
  /\ error = ErrTypeMismatch
  /\ editing
  /\ JsonParse(json).ok
  /\ LET out == SaveOutcome(json, selectedNode, editorValue) IN
     /\ out.kind = "mismatch"
     /\ out.working # JsonParse(json).val

\* C2: name-segment kind check.  A call of setValueAtPath reports
\* TypeMismatch (returns null) whenever a name segment of its path, at an
\* intermediate or at the final position, is applied to a cursor that is not
\* an object.
C2_NameSegmentNeedsObject ==
  (CallDone /\ CallPath # <<>>) =>
    \A n \in 1..Len(CallPath) :
      LET c == CursorBefore(call.doc, CallPath, 1, n) IN
      (CallPath[n].tag = "name" /\ c.reached /\ ~IsObject(c.val)) => CallMismatch

\* C3: no array auto-extend.  A call of setValueAtPath reports TypeMismatch
\* whenever an index segment of its path is applied to a cursor that is not
\* an array or is not below the length of the array at the cursor; and no
\* array of a successful result is longer than the array at the same place
\* of the input.
C3_NoArrayAutoExtend ==
  (CallDone /\ CallPath # <<>>) =>
    /\ \A n \in 1..Len(CallPath) :
         LET c == CursorBefore(call.doc, CallPath, 1, n) IN
         (/\ CallPath[n].tag = "index"
          /\ c.reached
          /\ (~IsArray(c.val) \/ CallPath[n].idx >= Len(c.val.e))) => CallMismatch
    /\ CallSucceeded =>
         \A q \in Locations(call.doc) :
           (/\ ~AtOrBelow(q, CallPath)
            /\ IsArray(Lookup(call.doc, q))
            /\ IsArray(Lookup(call.res.val, q)))
           => Len(Lookup(call.res.val, q).e) <= Len(Lookup(call.doc, q).e)

\* C4: reselection after a successful save.  Every step of the deferred
\* lookup leaves as selection the node, of the node set rebuilt from the
\* committed document, whose path equals the path captured at the save, and
\* no selection when that node set has no such node -- whether the rebuild
\* ran before the lookup or not.
C4_ReselectsInRebuiltNodeSet ==
  [][Reselect =>
       selectedNode' =
         FindByPath(BuildNodes(json, IF stale THEN gen + 1 ELSE gen), Head(timers))]_vars

\* C5: every step of handleSave either commits a document and leaves edit
\* mode, or commits nothing, stays in edit mode and reports an error.
C5_SaveCommitsOrReports ==
  [][handleSave =>
       \/ (commits' = commits + 1 /\ ~editing')
       \/ (commits' = commits /\ json' = json /\ editing' /\ error' # NoError)]_vars

\* Two values have the same shape: the same kind, the same property names in
\* the same order, the same number of elements.
SameShape(x, y) == x.k = y.k /\ x.keys = y.keys /\ Len(x.e) = Len(y.e)

\* C6: a point update preserves the rest of the document.  When the path of
\* a call is not empty and addresses an existing location of the document and
\* the call succeeds, the result holds the new value at the path, every
\* location of the document or of the result that is neither on the way to
\* the path nor at or below it holds the same value in both, and every
\* container on the way to the path keeps its keys, their order and its
\* length.
C6_PointUpdatePreservesRest ==
  (/\ CallDone
   /\ CallPath # <<>>
   /\ Lookup(call.doc, CallPath) # JUndef
   /\ CallSucceeded) =>
    /\ Lookup(call.res.val, CallPath) = call.value
    /\ \A q \in Locations(call.doc) \cup Locations(call.res.val) :
         IF AtOrBelow(q, CallPath) THEN TRUE
         ELSE IF IsPrefix(q, CallPath)
              THEN SameShape(Lookup(call.res.val, q), Lookup(call.doc, q))
         ELSE Lookup(call.res.val, q) = Lookup(call.doc, q)

\* C6, the case reached: {"a":{"b":1}} with the path ["a","b"] and the value
\* 2 has given {"a":{"b":2}}.
C6_Witness ==
  /\ CallDone
  /\ call.doc = JsonParse(TextNested).val
  /\ call.path = SomePath(<<NameSeg(<<"a">>), NameSeg(<<"b">>)>>)
  /\ call.value = JNum("2")
  /\ call.res.st = "return"
  /\ Stringify(call.res.val) = <<LB>> \o Q("a") \o <<CL, LB>> \o Q("b") \o <<CL, "2", RB, RB>>

\* C7: cancel.  Every step of handleCancel leaves edit mode, clears the
\* error, sets the editor text to the canonical text of the rows of the
\* selected node, and leaves the document text, the node set and the
\* selection as they were.
C7_CancelRestoresCanonicalText ==
  [][handleCancel =>
       /\ ~editing'
       /\ error' = NoError
       /\ editorValue' = normalizeNodeData(RowsOf(selectedNode'))
       /\ UNCHANGED <<json, commits, nodes, selectedNode>>]_vars

\* C7, the case reached: a node is selected and in edit mode, its edited
\* text differs from its canonical text and an error is shown; Cancel is
\* enabled here.
C7_Witness ==
  /\ opened /\ editing
  /\ selectedNode # <<>>
  /\ error # NoError
  /\ editorValue # normalizeNodeData(RowsOf(selectedNode))

\* C8: a selection change abandons an edit.  Every step taken in edit mode
\* that makes a node of another path the selection leaves edit mode, clears
\* the error, sets the editor text to the canonical text of the new
\* selection, and leaves the document text as it was.
C8_SelectionChangeAbandonsEdit ==
  [][(/\ editing
      /\ selectedNode' # <<>>
      /\ ~pathEquals(PathOf(selectedNode'), PathOf(selectedNode)))
     => (/\ ~editing'
         /\ error' = NoError
         /\ editorValue' = normalizeNodeData(RowsOf(selectedNode'))
         /\ json' = json)]_vars

\* C9: root replacement.  A call of setValueAtPath with the empty path
\* returns exactly the new value, whatever the document.
C9_EmptyPathReturnsValue ==
  (CallDone /\ call.path = SomePath(<<>>)) =>
    (call.res.st = "return" /\ call.res.val = call.value)

\* C9, the case reached: the document {"a":[1,2,3]} with the empty path and
\* the value 9 has given 9.
C9_Witness ==
  /\ CallDone
  /\ call.path = SomePath(<<>>)
  /\ IsObject(call.doc) /\ call.doc.keys # <<>>
  /\ call.value = JNum("9")
  /\ call.res.val = JNum("9")

\* C10: auto-vivification creates objects only, and only for missing
\* properties.  After a call with a non-empty path, in the copy the call
\* worked on: (a) where the walk reached an object without the property
\* named by a non-final segment, that property is now an object; (b) every
\* location of the document that is not at or below the path is still there
\* with a value of the same kind, and the same value when it is no
\* container; (c) every location on the way to the path that the document
\* did not have holds an object, and every array that is not at or below the
\* path is an array of the document.
C10_AutoVivifyObjectsOnly ==
  (CallDone /\ CallPath # <<>>) =>
    LET w == call.res.working IN
    /\ \A n \in 1..(Len(CallPath) - 1) :
         LET c == CursorBefore(call.doc, CallPath, 1, n) IN
         (/\ CallPath[n].tag = "name"
          /\ c.reached
          /\ IsObject(c.val)
          /\ KeyIndex(c.val, CallPath[n].name) = 0)
         => IsObject(Lookup(w, SubSeq(CallPath, 1, n)))
    /\ \A q \in Locations(call.doc) :
         ~AtOrBelow(q, CallPath) =>
           /\ Lookup(w, q).k = Lookup(call.doc, q).k
           /\ (~IsObject(Lookup(w, q)) /\ ~IsArray(Lookup(w, q)))
                => Lookup(w, q) = Lookup(call.doc, q)
    /\ \A q \in Locations(w) :
         ~AtOrBelow(q, CallPath) =>
           /\ (IsPrefix(q, CallPath) /\ Lookup(call.doc, q) = JUndef)
                => IsObject(Lookup(w, q))
           /\ IsArray(Lookup(w, q)) => IsArray(Lookup(call.doc, q))

\* C10, the case reached: {} with the path ["a","b"] and the value 3 has
\* given {"a":{"b":3}}.
C10_Witness ==
  /\ CallDone
  /\ call.doc = EmptyObj
  /\ call.path = SomePath(<<NameSeg(<<"a">>), NameSeg(<<"b">>)>>)
  /\ call.value = JNum("3")
  /\ call.res.st = "return"
  /\ Stringify(call.res.val) = <<LB>> \o Q("a") \o <<CL, LB>> \o Q("b") \o <<CL, "3", RB, RB>>

\* C11, as stated: after any call of setValueAtPath, successful or not, the
\* value it was given is structurally what it was before the call.
C11_CallLeavesArgument ==
  CallDone => call.res.working = call.doc

\* C11, amended: setValueAtPath writes in place into the value it is given;
\* handleSave gives it a deep clone of the parsed document, so that after
\* the call, successful or not, the parsed document is structurally what it
\* was before.
C11_SaveWorksOnClone ==
  call.pc = "saved" => call.current = call.doc

\* C11, the case reached: handleSave's call on {} has reported the type
\* mismatch after the walk had created a property in the object it was
\* given.
C11_Witness ==
  /\ call.pc = "saved"
  /\ call.doc = EmptyObj
  /\ CallMismatch
  /\ call.res.working # call.doc
  /\ call.current = call.doc

IsNoOpEditOf(n) ==
  /\ call.path = SomePath(n.path)
  /\ call.value = NewValueOf(normalizeNodeData(n.text))

\* C13: a no-op edit round-trips the canonical text.  When a call of
\* setValueAtPath writes, at the path of a node of the graph of its
\* document, the value parsed from the canonical text of that node, the
\* graph of the result has a node of that path, and its canonical text is
\* that of the node, key order included.
C13_NoOpEditRoundTrips ==
  CallDone =>
    \A j \in 1..Len(NodesOf(call.doc)) :
      IsNoOpEditOf(NodesOf(call.doc)[j]) =>
        /\ call.res.st = "return"
        /\ LET found == FindByPath(NodesOf(call.res.val), call.path) IN
           /\ found # <<>>
           /\ normalizeNodeData(found[1].text)
                = normalizeNodeData(NodesOf(call.doc)[j].text)

\* The mapping of the rows from position j on that have a key and whose
\* type is neither array nor object, in row order.
RECURSIVE KeyedScalarRows(_, _, _)
KeyedScalarRows(rows, j, obj) ==
  IF j > Len(rows) THEN obj
  ELSE KeyedScalarRows(rows, j + 1,
         IF rows[j].hasKey /\ rows[j].type \notin {"array", "object"}
         THEN SetProp(obj, rows[j].key, rows[j].value)
         ELSE obj)

\* C14: the case analysis of the normalizer.  A call of normalizeNodeData
\* returns {} for the empty row list; the scalar literal of the value of the
\* row for a list of one row without a key; and otherwise the serialization
\* of the mapping of the rows that have a key, the empty string included,
\* and whose type is neither array nor object, in row order.
C14_NormalizerCases ==
  call.pc = "normalized" =>
    call.out =
      IF call.rows = <<>> THEN <<LB, RB>>
      ELSE IF Len(call.rows) = 1 /\ ~call.rows[1].hasKey
           THEN Stringify(call.rows[1].value)
      ELSE Stringify(KeyedScalarRows(call.rows, 1, EmptyObj))

\* C15: path equality.  A call of pathEquals on two paths answers true
\* exactly when they have the same length and at every position segments of
\* the same tag and the same value; the answer is the same with the
\* arguments exchanged, and true of a path and itself.  (Of two absent
\* paths the answer is true, of an absent path and a path false.)
C15_PathEquality ==
  call.pc = "compared" =>
    /\ call.eq <=>
         IF call.a = NoPath \/ call.b = NoPath
         THEN call.a = NoPath /\ call.b = NoPath
         ELSE /\ Len(call.a[1]) = Len(call.b[1])
              /\ \A i \in 1..Len(call.a[1]) :
                   /\ call.a[1][i].tag = call.b[1][i].tag
                   /\ call.a[1][i].name = call.b[1][i].name
                   /\ call.a[1][i].idx = call.b[1][i].idx
    /\ call.eq <=> pathEquals(call.b, call.a)
    /\ pathEquals(call.a, call.a)

\* C15, the case reached: the path ["a","0"] and the path ["a",0] were
\* compared and found different.
C15_Witness ==
  /\ call.pc = "compared"
  /\ call.a = SomePath(<<NameSeg(<<"a">>), NameSeg(<<"0">>)>>)
  /\ call.b = SomePath(<<NameSeg(<<"a">>), IndexSeg(0)>>)
  /\ ~call.eq

\* C16: an early lookup clears the selection.  Every step of the deferred
\* lookup taken while the node set is not yet rebuilt from the committed
\* document leaves no selection: it selects no node of the node set of
\* before the save.
C16_EarlyLookupClearsSelection ==
  [][(Reselect /\ stale) => selectedNode' = <<>>]_vars

\* The selected node is a node of the current node set, and that node set is
\* the graph of the document text.
SelectionCurrent ==
  /\ selectedNode # <<>>
  /\ ~stale
  /\ \E j \in 1..Len(nodes) : nodes[j] = selectedNode[1]

\* C17: a no-op save leaves the document unchanged.  Every step of
\* handleSave taken with a node of the graph of the document selected and
\* the editor text as seeded, the canonical text of the node, commits a
\* document structurally equal to the document of before the save: the
\* properties of the location that hold an array or an object are still
\* there.
C17_NoOpSaveKeepsDocument ==
  [][(/\ handleSave
      /\ SelectionCurrent
      /\ JsonParse(json).ok
      /\ editorValue = normalizeNodeData(RowsOf(selectedNode)))
     => (/\ commits' = commits + 1
         /\ JsonParse(json').val = JsonParse(json).val)]_vars

\* C18: a pending reselection never overrides a later selection.  At a
\* save the path of the selection is the path the timer captures; when the
\* deferred lookup runs and the selection has another path, a later action
\* has established it, and the step of the lookup leaves it as it is.
C18_LookupKeepsLaterSelection ==
  [][(Reselect /\ ~pathEquals(PathOf(selectedNode), Head(timers)))
     => selectedNode' = selectedNode]_vars

\* C19: editing starts from the canonical text.  Every step of the Edit
\* button leaves as editor text the canonical text of the rows of the
\* selected node.
C19_EditStartsFromCanonicalText ==
  [][StartEdit => editorValue' = normalizeNodeData(RowsOf(selectedNode'))]_vars

\* C20: the whole document is replaced only for the root node.  Every step
\* of handleSave taken with no selection leaves the document text as it was
\* and commits nothing; and every step that commits, as the document, the
\* value of the edited text is taken with a node selected whose path is the
\* empty path.
C20_ReplacesWholeDocumentOnlyAtRoot ==
  [][handleSave =>
       /\ selectedNode = <<>> => (json' = json /\ commits' = commits)
       /\ (commits' = commits + 1 /\ json' = Stringify(NewValueOf(editorValue)))
            => (selectedNode # <<>> /\ selectedNode[1].path = <<>>)]_vars

====
